---- MODULE Spec2Model ----
(***************************************************************************)
(* wintree: the matcher findMatchingFiles of cmd/root.go, as the state     *)
(* machine of its filepath.WalkDir traversal.  One step of the machine is  *)
(* one invocation of the walk callback (root.go:166-265) together with     *)
(* what WalkDir does with the value the callback returns.                  *)
(***************************************************************************)
EXTENDS Integers, Sequences, FiniteSets, TLC

VARIABLES
    root,           \* absolute path of the start directory (sequence of names)
    entries,        \* the file system: path |-> "file" | "dir"
    unreadable,     \* directories whose ReadDir fails
    f,              \* filter: [excludeGlobs, includeGlobs], after processFilters
    maxDepth,       \* the package variable maxDepth (-1 = unlimited)
    matchingPaths,  \* the slice the callback appends to
    walkErr,        \* findMatchingFiles' second result: "nil" or "err"
    todo,           \* entries WalkDir still has to hand to the callback, in order
    pc,             \* "start", "walk", "readdir", "done"
    visited,        \* paths the main callback has been invoked on
    subVisited,     \* paths the sub-walk callback has been invoked on
    readFailed,     \* directories whose ReadDir was attempted and failed
    phase,          \* of a function called on its own: "input", then "output"
    patternArg,     \* expandBraces: its argument pattern, as characters
    expanded,       \* expandBraces: the list it returns
    excludePatterns, \* the package variable: raw --exclude patterns
    includePatterns, \* the package variable: raw --include patterns
    filters,        \* processFilters: the filter it returns, as characters
    showFullPath,   \* the --full-path option the tests and README name
    finalOutput,    \* buildTreeOutput: the string it returns, as lines
    renderedNodes,  \* the nodes buildTreeOutput wrote a line for, in order
    rpc,            \* position of RunE: "idle", "start", "matching", "returned"
    showVersion,    \* --version
    showPatterns,   \* --show-patterns
    useSmartDefaults, \* --smart-defaults
    copyToClipboard, \* --copy
    outputFile,     \* --out: the file name, "" when not given
    stdout,         \* what has been printed, in order
    clipboard,      \* the lines written to the clipboard, <<>> when none
    fileOut,        \* the lines written to the output file, <<>> when none
    runErr,         \* the error RunE returns, "nil" for none
    calls,          \* the functions RunE has called, in order
    sinkFailed      \* the sink whose write failed: "none", "clipboard", "file"

walkVars == <<root, entries, unreadable, f, maxDepth, matchingPaths, walkErr,
              todo, pc, visited, subVisited, readFailed>>
expandVars == <<patternArg, expanded>>
processVars == <<excludePatterns, includePatterns, filters>>
renderVars == <<showFullPath, finalOutput, renderedNodes>>
optionVars == <<showVersion, showPatterns, useSmartDefaults, copyToClipboard,
                outputFile>>
runVars == <<rpc, optionVars, stdout, clipboard, fileOut, runErr, calls,
            sinkFailed>>

vars == <<walkVars, phase, expandVars, processVars, renderVars, runVars>>

----------------------------------------------------------------------------
(* Bounds of the model. *)

MaxLeaves == 2        \* leaf entries (files, unreadable directories) in the tree
MaxUnreadable == 1    \* unreadable directories in the tree
MaxExclude == 1       \* length of the exclude list
MaxInclude == 2       \* length of the include list
MaxDepthBound == 1    \* largest non-negative value of maxDepth

(* Base names, in the byte order os.ReadDir returns them in. *)
SortedNames == <<"a", "ab">>
Names == {SortedNames[i] : i \in DOMAIN SortedNames}

(* Glob patterns the filter lists are drawn from. *)
Patterns == {"a", "a*", "?b"}

(* The characters of a name or pattern. *)
Chars(s) ==
    CASE s = "a"  -> <<"a">>
      [] s = "ab" -> <<"a", "b">>
      [] s = "a*" -> <<"a", "*">>
      [] s = "?b" -> <<"?", "b">>
      [] s = "tmp" -> <<"t", "m", "p">>
      [] s = "a.go" -> <<"a", ".", "g", "o">>
      [] s = "b.js" -> <<"b", ".", "j", "s">>
      [] s = "sub" -> <<"s", "u", "b">>
      [] s = "sub.x" -> <<"s", "u", "b", ".", "x">>
      [] s = "t.x" -> <<"t", ".", "x">>
      [] s = ".." -> <<".", ".">>
      [] s = "." -> <<".">>
      [] s = ".git" -> <<".", "g", "i", "t">>

(* Paths relative to the root that an entry of the tree may have. *)
Universe ==
    { <<"a">>, <<"ab">>,
      <<"a", "a">>, <<"a", "ab">>, <<"ab", "a">>,
      <<"a", "a", "a">>, <<"a", "ab", "a">>, <<"ab", "a", "ab">> }

----------------------------------------------------------------------------
(* Paths. *)

Range(s) == {s[i] : i \in DOMAIN s}

\* p is a proper ancestor of q
IsAncestor(p, q) == Len(p) < Len(q) /\ SubSeq(q, 1, Len(p)) = p

\* filepath.Base / d.Name(): the last element of the path
Base(path) == path[Len(path)]

\* filepath.Rel(root, path) for a path at or under root: "." for the root itself
Rel(base, path) ==
    IF path = base THEN <<".">> ELSE SubSeq(path, Len(base) + 1, Len(path))

\* strings.Count(relPath, string(filepath.Separator)): one separator between
\* two consecutive elements
SeparatorCount(relPath) == Len(relPath) - 1

IsDir(path) == entries[path] = "dir"

\* os.ReadDir(path): the directory's entries sorted by file name
ReadDir(path) ==
    LET all == [i \in DOMAIN SortedNames |-> Append(path, SortedNames[i])]
    IN  SelectSeq(all, LAMBDA p : p \in DOMAIN entries)

----------------------------------------------------------------------------
(* filepath.Match(pattern, name) on characters: '*' matches any run of     *)
(* characters, '?' any single character, any other character itself.       *)

RECURSIVE MatchChars(_, _)
MatchChars(p, n) ==
    IF p = <<>> THEN n = <<>>
    ELSE IF Head(p) = "*"
         THEN \E k \in 0..Len(n) : MatchChars(Tail(p), SubSeq(n, k + 1, Len(n)))
    ELSE IF Head(p) = "?"
         THEN n # <<>> /\ MatchChars(Tail(p), Tail(n))
    ELSE n # <<>> /\ Head(n) = Head(p) /\ MatchChars(Tail(p), Tail(n))

Match(pattern, name) == MatchChars(Chars(pattern), Chars(name))

----------------------------------------------------------------------------
(* The filter tests of the callback. *)

IncludeMode == Len(f.includeGlobs) > 0

\* some pattern of the list glob-matches the name
MatchesAny(patterns, name) ==
    \E i \in 1..Len(patterns) : Match(patterns[i], name)

\* variant: the callback that does not look at the error it is handed
CallbackFailsNever(err) == FALSE
\* root.go:167-169: the callback was handed an error
CallbackFails(err) == err # "nil"

\* root.go:189-200: the entry's name matches some exclude pattern
Excluded(name) == MatchesAny(f.excludeGlobs, name)

\* variant: the sub-walk without its exclude test
SubExcludedNever(name) == FALSE
\* root.go:226-232: the exclude test of the sub-walk, on files only
SubExcluded(name) == MatchesAny(f.excludeGlobs, name)

\* root.go:173-184: a directory below the root lies deeper than maxDepth
DirTooDeep(path) ==
    maxDepth # -1 /\ SeparatorCount(Rel(root, path)) > maxDepth

\* variants: the depth test of a file off by one, either way
FileDepthOkOffByOne(path) ==
    maxDepth = -1 \/ SeparatorCount(Rel(root, path)) <= maxDepth + 1
FileDepthOkStrict(path) ==
    maxDepth = -1 \/ SeparatorCount(Rel(root, path)) < maxDepth
\* variant: no depth test of a file
FileDepthOkUnbounded(path) == TRUE
\* root.go:205-210 and 250-255: a file lies within maxDepth
FileDepthOk(path) ==
    maxDepth = -1 \/ SeparatorCount(Rel(root, path)) < maxDepth + 1

\* variant: directories matched against the include patterns as globs
DirIncludedByGlob(name) == MatchesAny(f.includeGlobs, name)
\* root.go:220-221: the directory's name is equal to some include pattern
DirIncluded(name) ==
    \E i \in 1..Len(f.includeGlobs) : name = f.includeGlobs[i]

\* variant: a loop that takes the file whether or not a pattern matches
IncludeFileLoopFallsBack(i, path, paths) ==
    IF FileDepthOk(path) THEN Append(paths, path) ELSE paths
\* variant: the loop goes on after a match
RECURSIVE IncludeFileLoopNoBreak(_, _, _)
IncludeFileLoopNoBreak(i, path, paths) ==
    IF i > Len(f.includeGlobs) THEN paths
    ELSE IncludeFileLoopNoBreak(i + 1, path,
            IF Match(f.includeGlobs[i], Base(path)) /\ FileDepthOk(path)
            THEN Append(paths, path) ELSE paths)
\* root.go:247-260: the loop over the include patterns for a file; it appends
\* the path at the first pattern that matches and stops
RECURSIVE IncludeFileLoop(_, _, _)
IncludeFileLoop(i, path, paths) ==
    IF i > Len(f.includeGlobs) THEN paths
    ELSE IF Match(f.includeGlobs[i], Base(path)) /\ FileDepthOk(path)
         THEN Append(paths, path)
    ELSE IncludeFileLoop(i + 1, path, paths)

----------------------------------------------------------------------------
(* The sub-walk of an included directory, root.go:223-238.                 *)

\* the callback of the sub-walk: it ignores the error it is handed and
\* always returns nil
SubCallback(subPath, isDir, err, paths) ==
    [ret   |-> "nil",
     paths |-> IF ~isDir /\ ~SubExcluded(Base(subPath))
               THEN Append(paths, subPath) ELSE paths]

\* filepath.walkDir under SubCallback.  acc = [paths, ret, seen, failed]
RECURSIVE SubWalkDir(_, _)
RECURSIVE SubWalkList(_, _)
SubWalkDir(path, acc) ==
    LET r  == SubCallback(path, IsDir(path), "nil", acc.paths)
        a1 == [acc EXCEPT !.paths = r.paths, !.seen = @ \cup {path}]
    IN  IF r.ret # "nil" \/ ~IsDir(path)
        THEN [a1 EXCEPT !.ret = IF r.ret = "SkipDir" /\ IsDir(path)
                                THEN "nil" ELSE r.ret]
        ELSE IF path \in unreadable
        THEN \* second call, to report the ReadDir error
             LET r2 == SubCallback(path, TRUE, "err", a1.paths)
                 a2 == [a1 EXCEPT !.paths = r2.paths,
                                  !.failed = @ \cup {path}]
             IN  IF r2.ret # "nil"
                 THEN [a2 EXCEPT !.ret = IF r2.ret = "SkipDir"
                                         THEN "nil" ELSE r2.ret]
                 ELSE SubWalkList(ReadDir(path), a2)
        ELSE SubWalkList(ReadDir(path), a1)

SubWalkList(dirs, acc) ==
    IF dirs = <<>> THEN [acc EXCEPT !.ret = "nil"]
    ELSE LET a == SubWalkDir(Head(dirs), acc)
         IN  IF a.ret = "SkipDir" THEN [a EXCEPT !.ret = "nil"]
             ELSE IF a.ret # "nil" THEN a
             ELSE SubWalkList(Tail(dirs), a)

\* variant: a sub-walk that looks at the directory's own entries only
SubWalkChildrenOnly(path, paths) ==
    [paths  |-> paths \o SelectSeq(ReadDir(path),
                    LAMBDA p : ~IsDir(p) /\ ~SubExcluded(Base(p))),
     ret    |-> "nil",
     seen   |-> {path} \cup Range(ReadDir(path)),
     failed |-> {}]
\* filepath.WalkDir(path, SubCallback): subWalkErr and the paths appended
SubWalk(path, paths) ==
    LET a == SubWalkDir(path, [paths |-> paths, ret |-> "nil",
                               seen |-> {}, failed |-> {}])
    IN  [a EXCEPT !.ret = IF a.ret = "SkipDir" THEN "nil" ELSE a.ret]

----------------------------------------------------------------------------
(* The callback of the main walk, root.go:166-265.                         *)
(* Result: ret ("nil", "SkipDir", "err"), the new matchingPaths, and the   *)
(* paths seen and the failed reads of a sub-walk it ran.                   *)

Return(ret, paths) == [ret |-> ret, paths |-> paths, seen |-> {}, failed |-> {}]

\* variant: an excluded start directory is skipped like any other directory
CallbackSkipsExcludedRoot(path, isDir, err, paths) ==
    IF CallbackFails(err) THEN Return("err", paths)
    ELSE IF isDir /\ path # root /\ DirTooDeep(path) THEN Return("SkipDir", paths)
    ELSE IF Excluded(Base(path))
         THEN IF isDir THEN Return("SkipDir", paths)
              ELSE Return("nil", paths)
    ELSE IF ~IncludeMode
         THEN IF ~isDir /\ FileDepthOk(path)
              THEN Return("nil", Append(paths, path))
              ELSE Return("nil", paths)
    ELSE IF isDir
         THEN IF DirIncluded(Base(path))
              THEN LET sw == SubWalk(path, paths)
                   IN  IF sw.ret # "nil" THEN sw
                       ELSE [sw EXCEPT !.ret = "SkipDir"]
              ELSE Return("nil", paths)
    ELSE Return("nil", IncludeFileLoop(1, path, paths))

Callback(path, isDir, err, paths) ==
    IF CallbackFails(err) THEN Return("err", paths)
    ELSE IF isDir /\ path # root /\ DirTooDeep(path) THEN Return("SkipDir", paths)
    ELSE IF Excluded(Base(path))
         THEN IF isDir /\ path # root THEN Return("SkipDir", paths)
              ELSE Return("nil", paths)
    ELSE IF ~IncludeMode
         THEN IF ~isDir /\ FileDepthOk(path)
              THEN Return("nil", Append(paths, path))
              ELSE Return("nil", paths)
    ELSE IF isDir
         THEN IF DirIncluded(Base(path))
              THEN LET sw == SubWalk(path, paths)
                   IN  IF sw.ret # "nil" THEN sw
                       ELSE [sw EXCEPT !.ret = "SkipDir"]
              ELSE Return("nil", paths)
    ELSE Return("nil", IncludeFileLoop(1, path, paths))

----------------------------------------------------------------------------
(* Initial states: a start directory, a tree under it, a filter and a      *)
(* depth bound; findMatchingFiles has not started (root.go:163-164).       *)

\* sequences over S of length at most n
SeqsUpTo(S, n) == UNION {[1..k -> S] : k \in 0..n}

\* no element of the set is an ancestor of another
PrefixFree(S) == \A p \in S, q \in S : ~IsAncestor(p, q)

\* the proper ancestors of a relative path, the empty path (the root) included
Ancestors(rel) == {SubSeq(rel, 1, k) : k \in 0..(Len(rel) - 1)}

\* the tree with the given files and unreadable leaf directories under base
Tree(base, files, udirs) ==
    LET leaves == files \cup udirs
        rels   == leaves \cup UNION {Ancestors(r) : r \in leaves} \cup {<<>>}
    IN  [p \in {base \o r : r \in rels} |->
            IF Rel(base, p) \in files THEN "file" ELSE "dir"]

NoTree == [p \in {} |-> "dir"]

\* RunE is not running
NoRun ==
    /\ rpc = "idle"
    /\ showVersion = FALSE /\ showPatterns = FALSE /\ useSmartDefaults = FALSE
    /\ copyToClipboard = FALSE /\ outputFile = ""
    /\ stdout = <<>> /\ clipboard = <<>> /\ fileOut = <<>>
    /\ runErr = "nil" /\ calls = <<>> /\ sinkFailed = "none"

Init ==
    /\ \E n \in Names : root = <<"tmp", n>>
    /\ \E leaves \in SUBSET Universe :
         /\ Cardinality(leaves) <= MaxLeaves
         /\ PrefixFree(leaves)
         /\ \E udirs \in SUBSET leaves :
              /\ Cardinality(udirs) <= MaxUnreadable
              /\ \/ /\ entries = Tree(root, leaves \ udirs, udirs)
                    /\ unreadable = {root \o r : r \in udirs}
                 \/ \* the start directory itself is unreadable, or does not exist
                    /\ leaves = {}
                    /\ \/ MaxUnreadable > 0 /\ entries = Tree(root, {}, {})
                             /\ unreadable = {root}
                       \/ entries = NoTree /\ unreadable = {}
    /\ \E ex \in SeqsUpTo(Patterns, MaxExclude), inc \in SeqsUpTo(Patterns, MaxInclude) :
         f = [excludeGlobs |-> ex, includeGlobs |-> inc]
    /\ maxDepth \in -1..MaxDepthBound
    /\ matchingPaths = <<>>
    /\ walkErr = "nil"
    /\ todo = <<>>
    /\ pc = "start"
    /\ visited = {}
    /\ subVisited = {}
    /\ readFailed = {}
    /\ phase = "input"
    /\ patternArg = <<>> /\ expanded = <<>>
    /\ excludePatterns = <<>> /\ includePatterns = <<>>
    /\ filters = [excludeGlobs |-> <<>>, includeGlobs |-> <<>>]
    /\ showFullPath = FALSE /\ finalOutput = <<>> /\ renderedNodes = <<>>
    /\ NoRun

----------------------------------------------------------------------------
(* filepath.WalkDir(root, Callback), root.go:166, one callback per step.   *)

\* what the walk does not change: its arguments, the tree, and the state of
\* the functions outside findMatchingFiles
Config == <<root, entries, unreadable, f, maxDepth,
            phase, expandVars, processVars, renderVars, runVars>>

\* os.Lstat(root) fails: the callback is called once with the error
WalkDirLstatError ==
    /\ pc = "start"
    /\ root \notin DOMAIN entries
    /\ LET r == Callback(root, FALSE, "err", matchingPaths)
       IN  /\ matchingPaths' = r.paths
           /\ walkErr' = IF r.ret = "SkipDir" THEN "nil" ELSE r.ret
    /\ pc' = "done"
    /\ UNCHANGED <<Config, todo, visited, subVisited, readFailed>>

\* os.Lstat(root) succeeds: the walk starts at the root
WalkDirStart ==
    /\ pc = "start"
    /\ root \in DOMAIN entries
    /\ todo' = <<root>>
    /\ pc' = "walk"
    /\ UNCHANGED <<Config, matchingPaths, walkErr, visited, subVisited, readFailed>>

\* walkDir: the callback on the next entry, then, for a directory the
\* callback did not skip, ReadDir
VisitEntry ==
    /\ pc = "walk"
    /\ todo # <<>>
    /\ LET path  == Head(todo)
           isDir == IsDir(path)
           r     == Callback(path, isDir, "nil", matchingPaths)
           siblings == {p \in Range(todo) :
                          SubSeq(p, 1, Len(p) - 1) = SubSeq(path, 1, Len(path) - 1)}
       IN  /\ matchingPaths' = r.paths
           /\ visited' = visited \cup {path}
           /\ subVisited' = subVisited \cup r.seen
           /\ IF r.ret = "err"
              THEN /\ walkErr' = "err"
                   /\ pc' = "done"
                   /\ todo' = <<>>
                   /\ readFailed' = readFailed \cup r.failed
              ELSE IF r.ret = "SkipDir"
              THEN /\ todo' = IF isDir THEN Tail(todo)
                              ELSE SelectSeq(todo, LAMBDA p : p \notin siblings)
                   /\ readFailed' = readFailed \cup r.failed
                   /\ UNCHANGED <<walkErr, pc>>
              ELSE IF ~isDir
              THEN /\ todo' = Tail(todo)
                   /\ readFailed' = readFailed \cup r.failed
                   /\ UNCHANGED <<walkErr, pc>>
              ELSE IF path \in unreadable
              THEN /\ pc' = "readdir"
                   /\ readFailed' = readFailed \cup r.failed \cup {path}
                   /\ UNCHANGED <<walkErr, todo>>
              ELSE /\ todo' = ReadDir(path) \o Tail(todo)
                   /\ readFailed' = readFailed \cup r.failed
                   /\ UNCHANGED <<walkErr, pc>>
    /\ UNCHANGED Config

\* walkDir: ReadDir failed, the callback is called a second time on the
\* directory, with the error
ReadDirError ==
    /\ pc = "readdir"
    /\ LET path == Head(todo)
           r    == Callback(path, TRUE, "err", matchingPaths)
       IN  /\ matchingPaths' = r.paths
           /\ IF r.ret \in {"nil", "SkipDir"}
              THEN /\ todo' = Tail(todo)
                   /\ pc' = "walk"
                   /\ UNCHANGED walkErr
              ELSE /\ walkErr' = r.ret
                   /\ pc' = "done"
                   /\ todo' = <<>>
    /\ UNCHANGED <<Config, visited, subVisited, readFailed>>

\* the walk is over: return matchingPaths, walkErr (root.go:267)
WalkDirReturn ==
    /\ pc = "walk"
    /\ todo = <<>>
    /\ pc' = "done"
    /\ UNCHANGED <<Config, matchingPaths, walkErr, todo, visited, subVisited, readFailed>>

Next ==
    \/ WalkDirLstatError
    \/ WalkDirStart
    \/ VisitEntry
    \/ ReadDirError
    \/ WalkDirReturn

Spec == Init /\ [][Next]_vars

----------------------------------------------------------------------------
(* Vocabulary of the properties.                                           *)

Done == pc = "done"
Result == Range(matchingPaths)
Files == {p \in DOMAIN entries : entries[p] = "file"}
Dirs == {p \in DOMAIN entries : entries[p] = "dir"}

\* number of separators in the path relative to the root
Depth(p) == Len(p) - Len(root) - 1

\* the path has an ancestor directory strictly below the root whose name
\* matches an exclude pattern
UnderExcludedDir(p) ==
    \E d \in Dirs : /\ IsAncestor(root, d)
                    /\ IsAncestor(d, p)
                    /\ MatchesAny(f.excludeGlobs, Base(d))

\* the path lies beneath a directory whose name is equal to an include pattern
UnderIncludedDir(p) ==
    \E d \in Dirs : IsAncestor(d, p) /\ Base(d) \in Range(f.includeGlobs)

WithinDepth(p) == maxDepth = -1 \/ Depth(p) <= maxDepth

\* the walk could not read the start directory or some directory it tried to read
TraversalFailed == root \notin DOMAIN entries \/ readFailed # {}

----------------------------------------------------------------------------
(* C1: a file whose base name matches an exclude pattern is never in the   *)
(* result, whether or not its name also matches an include pattern or it   *)
(* lies under a directory named by an include pattern.                     *)
C1_ExcludedFileNeverReturned ==
    \A p \in Result : ~MatchesAny(f.excludeGlobs, Base(p))

\* the walk has met, and dropped, an excluded file that matches an include
\* pattern and an excluded file inside an included directory
C1_Witness ==
    /\ Done
    /\ \E p \in Files \cap visited :
         /\ MatchesAny(f.excludeGlobs, Base(p))
         /\ MatchesAny(f.includeGlobs, Base(p))
         /\ p \notin Result
    /\ \E q \in Files \cap subVisited :
         /\ MatchesAny(f.excludeGlobs, Base(q))
         /\ UnderIncludedDir(q)
         /\ q \notin Result

(* C2: no path that is returned, and no path the walk visits, has an       *)
(* ancestor directory strictly below the root whose base name matches an   *)
(* exclude pattern.                                                        *)
C2_ExcludedDirPruned ==
    \A p \in Result \cup visited \cup subVisited : ~UnderExcludedDir(p)

(* C3: with a depth bound D >= 0, every returned path has at most D        *)
(* separators in its path relative to the root.                            *)
C3_ResultWithinDepth ==
    maxDepth >= 0 =>
        \A p \in Result : SeparatorCount(Rel(root, p)) <= maxDepth

(* C4: with no include and no exclude patterns, a walk that returns        *)
(* without error returns exactly the files with at most D separators in    *)
(* their relative path, and every file when the bound is -1.               *)
C4_DepthOnly ==
    (Done /\ walkErr = "nil" /\ f.excludeGlobs = <<>> /\ f.includeGlobs = <<>>)
        => Result = {p \in Files : maxDepth = -1 \/ Depth(p) <= maxDepth}

\* depth bound 0, a file directly under the root returned, a deeper one not
C4_Witness ==
    /\ Done /\ walkErr = "nil"
    /\ f.excludeGlobs = <<>> /\ f.includeGlobs = <<>>
    /\ maxDepth = 0
    /\ \E p \in Files : Depth(p) = 0 /\ p \in Result
    /\ \E q \in Files : Depth(q) > 0 /\ q \notin Result

(* C5: in include mode every returned path is a file whose base name       *)
(* glob-matches an include pattern, or a file beneath a directory whose    *)
(* base name is equal to an include pattern.                               *)
C5_IncludeModeOnlyMatches ==
    IncludeMode =>
        \A p \in Result :
            /\ p \in Files
            /\ MatchesAny(f.includeGlobs, Base(p)) \/ UnderIncludedDir(p)

\* one file returned for its own name, another only for the directory above it
C5_Witness ==
    /\ Done /\ IncludeMode
    /\ \E p \in Result : MatchesAny(f.includeGlobs, Base(p)) /\ ~UnderIncludedDir(p)
    /\ \E q \in Result : ~MatchesAny(f.includeGlobs, Base(q)) /\ UnderIncludedDir(q)

(* C6: in include mode, when no file name glob-matches and no directory    *)
(* name equals an include pattern, the result is empty, and the only error *)
(* the walk can return is a failure to read the tree: there is no fallback *)
(* to all files and no error for the lack of matches.                      *)
C6_NoMatchEmptyResult ==
    ( /\ Done /\ IncludeMode
      /\ \A p \in Files : ~MatchesAny(f.includeGlobs, Base(p))
      /\ \A d \in Dirs : Base(d) \notin Range(f.includeGlobs) )
        => /\ matchingPaths = <<>>
           /\ walkErr = "nil" \/ TraversalFailed

\* files were visited, none matched, the walk returned nothing and no error
C6_Witness ==
    /\ Done /\ IncludeMode
    /\ \A p \in Files : ~MatchesAny(f.includeGlobs, Base(p))
    /\ \A d \in Dirs : Base(d) \notin Range(f.includeGlobs)
    /\ Files \cap visited # {}
    /\ matchingPaths = <<>> /\ walkErr = "nil"

(* C7 as stated: once the main walk has reached a non-excluded directory   *)
(* whose name is equal to an include pattern, every file beneath it whose  *)
(* own name matches no exclude pattern is in the result; a directory whose *)
(* name is not equal to an include pattern is not sub-walked.              *)
C7_Original ==
    IncludeMode =>
        \A d \in Dirs \cap visited :
            /\ (Base(d) \in Range(f.includeGlobs) /\ ~MatchesAny(f.excludeGlobs, Base(d)))
                  => \A p \in Files :
                        (IsAncestor(d, p) /\ ~MatchesAny(f.excludeGlobs, Base(p)))
                            => p \in Result
            /\ Base(d) \notin Range(f.includeGlobs) => d \notin subVisited

(* C7, amended: the same for a directory that is the root or lies within   *)
(* the depth bound (its depth is at most maxDepth, or maxDepth is -1).     *)
C7_IncludedDirWithinDepth ==
    IncludeMode =>
        \A d \in Dirs \cap visited :
            /\ ( /\ Base(d) \in Range(f.includeGlobs)
                 /\ ~MatchesAny(f.excludeGlobs, Base(d))
                 /\ (d = root \/ WithinDepth(d)) )
                  => \A p \in Files :
                        (IsAncestor(d, p) /\ ~MatchesAny(f.excludeGlobs, Base(p)))
                            => p \in Result
            /\ Base(d) \notin Range(f.includeGlobs) => d \notin subVisited

\* an included directory below the root, with a file two levels beneath it
\* returned, and a directory that an include pattern only glob-matches
C7_Witness ==
    /\ Done /\ IncludeMode
    /\ \E d \in Dirs \cap visited :
         /\ d # root
         /\ Base(d) \in Range(f.includeGlobs)
         /\ \E p \in Result : IsAncestor(d, p) /\ Len(p) = Len(d) + 2
    /\ \E e \in Dirs \cap visited :
         /\ MatchesAny(f.includeGlobs, Base(e))
         /\ Base(e) \notin Range(f.includeGlobs)
         /\ \E q \in Files : IsAncestor(e, q) /\ q \notin Result

(* C8: with no include patterns, a walk that returns without error returns *)
(* every file that is not excluded by name, not under an excluded          *)
(* directory and within the depth bound; and in every mode the result      *)
(* holds only files, never a directory.                                    *)
C8_NonIncludeModeAllSurvivors ==
    /\ (Done /\ walkErr = "nil" /\ ~IncludeMode)
          => \A p \in Files :
                ( /\ ~MatchesAny(f.excludeGlobs, Base(p))
                  /\ ~UnderExcludedDir(p)
                  /\ WithinDepth(p) ) => p \in Result
    /\ \A p \in Result : p \in Files

\* an exclude pattern at work: a file under an excluded directory is not
\* returned, a surviving file at the depth bound is
C8_Witness ==
    /\ Done /\ walkErr = "nil" /\ ~IncludeMode
    /\ f.excludeGlobs # <<>>
    /\ \E p \in Files : UnderExcludedDir(p) /\ p \notin Result
    /\ \E q \in Result : maxDepth >= 0 /\ Depth(q) = maxDepth

(* C9: whenever a directory the traversal tries to read cannot be read -   *)
(* the root, a directory of the main walk, or a directory inside an        *)
(* included directory - findMatchingFiles returns a non-nil error.         *)
C9_UnreadableDirIsError ==
    (Done /\ TraversalFailed) => walkErr # "nil"

(* C10: called on a root that does not exist, findMatchingFiles returns a  *)
(* non-nil error, whatever the filter.                                     *)
C10_MissingRootIsError ==
    (Done /\ root \notin DOMAIN entries) => walkErr # "nil"

\* the walk of a missing root has returned, with both filter lists in use
C10_Witness ==
    /\ Done
    /\ root \notin DOMAIN entries
    /\ f.excludeGlobs # <<>> /\ IncludeMode
    /\ matchingPaths = <<>>

----------------------------------------------------------------------------
(* expandBraces, root.go:119-141, on strings as sequences of characters.   *)

MaxPatternLen == 6    \* length of the pattern handed to expandBraces

PatternChars == {"a", "{", "}", ",", " "}

\* the least index i >= from with s[i] = c, or 0
IndexFrom(s, c, from) ==
    LET hits == {i \in from..Len(s) : s[i] = c}
    IN  IF hits = {} THEN 0 ELSE CHOOSE i \in hits : \A j \in hits : i <= j

\* variant: a '{' that nothing closes opens a group that runs to the end
FindStringSubmatchUnclosed(s) ==
    LET k == IndexFrom(s, "{", 1)
        e == IF k = 0 THEN 0 ELSE IndexFrom(s, "}", k + 1)
    IN  IF k = 0 THEN <<>>
        ELSE IF e = 0 THEN <<SubSeq(s, k, Len(s)), SubSeq(s, k + 1, Len(s))>>
        ELSE <<SubSeq(s, k, e), SubSeq(s, k + 1, e - 1)>>

\* regexp \{([^}]*)\} FindStringSubmatch: the leftmost match and its group,
\* or the empty list.  A '{' matches iff a '}' follows it, and the match
\* ends at the first '}' after it.
FindStringSubmatch(s) ==
    LET opens == {i \in 1..Len(s) : s[i] = "{" /\ IndexFrom(s, "}", i + 1) # 0}
    IN  IF opens = {} THEN <<>>
        ELSE LET start == CHOOSE i \in opens : \A j \in opens : i <= j
                 end   == IndexFrom(s, "}", start + 1)
             IN  <<SubSeq(s, start, end), SubSeq(s, start + 1, end - 1)>>

\* variant: a replacement that leaves the string as it was
ReplaceNothing(s, old, new) == s

\* strings.Replace(s, old, new, 1) for a non-empty old: the first occurrence
ReplaceFirst(s, old, new) ==
    LET at == {k \in 1..(Len(s) - Len(old) + 1) :
                 SubSeq(s, k, k + Len(old) - 1) = old}
    IN  IF at = {} THEN s
        ELSE LET k == CHOOSE i \in at : \A j \in at : i <= j
             IN  SubSeq(s, 1, k - 1) \o new \o SubSeq(s, k + Len(old), Len(s))

\* strings.Split(s, ","): the pieces between the commas, empty ones included
RECURSIVE Split(_)
Split(s) ==
    LET k == IndexFrom(s, ",", 1)
    IN  IF k = 0 THEN <<s>>
        ELSE <<SubSeq(s, 1, k - 1)>> \o Split(SubSeq(s, k + 1, Len(s)))

\* variant: no trimming
TrimSpaceNever(s) == s

\* strings.TrimSpace
RECURSIVE TrimSpace(_)
TrimSpace(s) ==
    IF s = <<>> THEN s
    ELSE IF Head(s) = " " THEN TrimSpace(Tail(s))
    ELSE IF s[Len(s)] = " " THEN TrimSpace(SubSeq(s, 1, Len(s) - 1))
    ELSE s

ExpandBraces(p) ==
    LET matches == FindStringSubmatch(p)
    IN  IF Len(matches) < 2 THEN <<p>>
        ELSE IF matches[2] = <<>> THEN <<ReplaceFirst(p, matches[1], <<>>)>>
        ELSE LET options == Split(matches[2])
             IN  [i \in 1..Len(options) |->
                    ReplaceFirst(p, matches[1], TrimSpace(options[i]))]

\* everything outside expandBraces is at rest
ExpandOnly ==
    /\ NoRun
    /\ root = <<>> /\ entries = NoTree /\ unreadable = {}
    /\ f = [excludeGlobs |-> <<>>, includeGlobs |-> <<>>]
    /\ maxDepth = -1 /\ matchingPaths = <<>> /\ walkErr = "nil"
    /\ todo = <<>> /\ pc = "idle"
    /\ visited = {} /\ subVisited = {} /\ readFailed = {}
    /\ excludePatterns = <<>> /\ includePatterns = <<>>
    /\ filters = [excludeGlobs |-> <<>>, includeGlobs |-> <<>>]
    /\ showFullPath = FALSE /\ finalOutput = <<>> /\ renderedNodes = <<>>

ExpandInit ==
    /\ patternArg \in SeqsUpTo(PatternChars, MaxPatternLen)
    /\ expanded = <<>>
    /\ phase = "input"
    /\ ExpandOnly

\* expanded := expandBraces(patternArg)
CallExpandBraces ==
    /\ phase = "input"
    /\ expanded' = ExpandBraces(patternArg)
    /\ phase' = "output"
    /\ UNCHANGED <<walkVars, patternArg, processVars, renderVars, runVars>>

ExpandNext == CallExpandBraces

SpecExpand == ExpandInit /\ [][ExpandNext]_vars

----------------------------------------------------------------------------
(* The first brace group of a pattern, stated on positions: it opens at    *)
(* the first '{' that a '}' follows and closes at the first '}' after it.  *)

HasBraceGroup(s) ==
    \E i, j \in 1..Len(s) : i < j /\ s[i] = "{" /\ s[j] = "}"

GroupOpen(s) ==
    CHOOSE i \in 1..Len(s) :
        /\ s[i] = "{" /\ \E j \in (i + 1)..Len(s) : s[j] = "}"
        /\ \A h \in 1..(i - 1) :
               ~(s[h] = "{" /\ \E j \in (h + 1)..Len(s) : s[j] = "}")

GroupClose(s) ==
    CHOOSE j \in (GroupOpen(s) + 1)..Len(s) :
        s[j] = "}" /\ \A h \in (GroupOpen(s) + 1)..(j - 1) : s[h] # "}"

BeforeGroup(s) == SubSeq(s, 1, GroupOpen(s) - 1)
AfterGroup(s) == SubSeq(s, GroupClose(s) + 1, Len(s))
GroupText(s) == SubSeq(s, GroupOpen(s) + 1, GroupClose(s) - 1)

\* the number of comma-separated options of a text
OptionCount(t) == Cardinality({i \in 1..Len(t) : t[i] = ","}) + 1

\* the n-th comma-separated option of a text: what lies between the
\* (n-1)-th and the n-th comma
Option(t, n) ==
    LET commas == {i \in 1..Len(t) : t[i] = ","}
        before(i) == Cardinality({c \in commas : c < i})
        own == {i \in 1..Len(t) : t[i] # "," /\ before(i) = n - 1}
    IN  [m \in 1..Cardinality(own) |->
            t[CHOOSE i \in own : Cardinality({h \in own : h < i}) = m - 1]]

\* a text without its leading and trailing spaces
Trimmed(t) ==
    LET solid == {i \in 1..Len(t) : t[i] # " "}
    IN  IF solid = {} THEN <<>>
        ELSE SubSeq(t, CHOOSE i \in solid : \A j \in solid : i <= j,
                       CHOOSE i \in solid : \A j \in solid : i >= j)

(* C12: a pattern that contains no brace group expands to the one-element  *)
(* list holding the pattern itself, unchanged.                             *)
C12_NoGroupIsIdentity ==
    (phase = "output" /\ ~HasBraceGroup(patternArg))
        => expanded = <<patternArg>>

\* a pattern with braces and a comma but no group has been expanded
C12_Witness ==
    /\ phase = "output" /\ ~HasBraceGroup(patternArg)
    /\ \E i \in 1..Len(patternArg) : patternArg[i] = "{"
    /\ \E i \in 1..Len(patternArg) : patternArg[i] = ","
    /\ expanded = <<patternArg>>

(* C13: when the first brace group is non-empty and holds k comma-         *)
(* separated options, the result has exactly k patterns, in option order;  *)
(* the i-th is the input with the first group replaced by the i-th option, *)
(* trimmed of surrounding spaces, and everything outside that group, later *)
(* groups included, as it was.                                             *)
C13_FirstGroupExpanded ==
    (phase = "output" /\ HasBraceGroup(patternArg)
                      /\ GroupText(patternArg) # <<>>)
        => /\ Len(expanded) = OptionCount(GroupText(patternArg))
           /\ \A i \in 1..Len(expanded) :
                 expanded[i] = BeforeGroup(patternArg)
                                 \o Trimmed(Option(GroupText(patternArg), i))
                                 \o AfterGroup(patternArg)

\* two options, one of them with a space to trim, and a later group kept
C13_Witness ==
    /\ phase = "output" /\ HasBraceGroup(patternArg)
    /\ OptionCount(GroupText(patternArg)) = 2
    /\ \E i \in 1..2 : Trimmed(Option(GroupText(patternArg), i))
                          # Option(GroupText(patternArg), i)
    /\ HasBraceGroup(AfterGroup(patternArg))
    /\ Len(expanded) = 2
    /\ \A i \in 1..2 : HasBraceGroup(expanded[i])

(* C14: when the first brace group is empty, the result is the single      *)
(* pattern with the text of that group removed.                            *)
C14_EmptyGroupRemoved ==
    (phase = "output" /\ HasBraceGroup(patternArg)
                      /\ GroupText(patternArg) = <<>>)
        => expanded = <<BeforeGroup(patternArg) \o AfterGroup(patternArg)>>

\* an empty group between other text has been removed
C14_Witness ==
    /\ phase = "output" /\ HasBraceGroup(patternArg)
    /\ GroupText(patternArg) = <<>>
    /\ BeforeGroup(patternArg) # <<>> /\ AfterGroup(patternArg) # <<>>
    /\ Len(expanded) = 1
    /\ Len(expanded[1]) = Len(patternArg) - 2

----------------------------------------------------------------------------
(* processFilters, root.go:143-160.                                        *)

MaxRaw == 2    \* length of each raw pattern list handed to processFilters

\* raw patterns as typed on the command line: plain, with a group of two
\* options, with an empty group, and with two groups
RawPatterns ==
    { <<"a">>,
      <<"{", "a", "*", ",", " ", "?", "b", "}">>,
      <<"a", "{", "}">>,
      <<"{", "a", "}", "{", "}">> }

\* root.go:146-148 and 151-153: for _, pattern := range list
\*     globs = append(globs, expandBraces(pattern)...)
RECURSIVE ExpandLoop(_, _, _)
ExpandLoop(list, i, globs) ==
    IF i > Len(list) THEN globs
    ELSE ExpandLoop(list, i + 1, globs \o ExpandBraces(list[i]))

\* variant: the two lists change places
ProcessFiltersSwapped(exclude, include) ==
    [excludeGlobs |-> ExpandLoop(include, 1, <<>>),
     includeGlobs |-> ExpandLoop(exclude, 1, <<>>)]

ProcessFilters(exclude, include) ==
    [excludeGlobs |-> ExpandLoop(exclude, 1, <<>>),
     includeGlobs |-> ExpandLoop(include, 1, <<>>)]

\* everything outside processFilters is at rest
ProcessOnly ==
    /\ NoRun
    /\ root = <<>> /\ entries = NoTree /\ unreadable = {}
    /\ f = [excludeGlobs |-> <<>>, includeGlobs |-> <<>>]
    /\ maxDepth = -1 /\ matchingPaths = <<>> /\ walkErr = "nil"
    /\ todo = <<>> /\ pc = "idle"
    /\ visited = {} /\ subVisited = {} /\ readFailed = {}
    /\ patternArg = <<>> /\ expanded = <<>>
    /\ showFullPath = FALSE /\ finalOutput = <<>> /\ renderedNodes = <<>>

ProcessInit ==
    /\ excludePatterns \in SeqsUpTo(RawPatterns, MaxRaw)
    /\ includePatterns \in SeqsUpTo(RawPatterns, MaxRaw)
    /\ filters = [excludeGlobs |-> <<>>, includeGlobs |-> <<>>]
    /\ phase = "input"
    /\ ProcessOnly

\* filters := processFilters(excludePatterns, includePatterns)
CallProcessFilters ==
    /\ phase = "input"
    /\ filters' = ProcessFilters(excludePatterns, includePatterns)
    /\ phase' = "output"
    /\ UNCHANGED <<walkVars, expandVars, excludePatterns, includePatterns,
                   renderVars, runVars>>

ProcessNext == CallProcessFilters

SpecProcess == ProcessInit /\ [][ProcessNext]_vars

\* the number of patterns the entries before the i-th expand to
RECURSIVE ExpansionsBefore(_, _)
ExpansionsBefore(list, i) ==
    IF i <= 1 THEN 0
    ELSE ExpansionsBefore(list, i - 1) + Len(ExpandBraces(list[i - 1]))

\* globs is the expansions of the entries of list, one after the other
IsConcatenationOfExpansions(globs, list) ==
    /\ Len(globs) = ExpansionsBefore(list, Len(list) + 1)
    /\ \A i \in 1..Len(list) :
         \A j \in 1..Len(ExpandBraces(list[i])) :
            globs[ExpansionsBefore(list, i) + j] = ExpandBraces(list[i])[j]

(* C15: each list of the filter processFilters returns is the              *)
(* concatenation, in input order, of the expansions of the entries of the  *)
(* corresponding input list; the exclude and the include list are built    *)
(* independently, and the input lists are not modified.                    *)
C15_ProcessFiltersConcatenates ==
    /\ [](phase = "output" =>
            /\ IsConcatenationOfExpansions(filters.excludeGlobs,
                                           excludePatterns)
            /\ IsConcatenationOfExpansions(filters.includeGlobs,
                                           includePatterns))
    /\ [][UNCHANGED <<excludePatterns, includePatterns>>]_vars

\* two lists that differ, one of them with a pattern of several options
C15_Witness ==
    /\ phase = "output"
    /\ Len(excludePatterns) = 2 /\ Len(includePatterns) = 1
    /\ Len(filters.excludeGlobs) = 3 /\ Len(filters.includeGlobs) = 1
    /\ filters.excludeGlobs[1] # filters.excludeGlobs[2]
    /\ filters.includeGlobs[1] \notin Range(filters.excludeGlobs)

----------------------------------------------------------------------------
(* buildTreeOutput, root.go:271-365.  A path is the sequence of its        *)
(* elements; its string is the elements with a separator before each.  The *)
(* output is the sequence of its lines, a line the sequence of the strings *)
(* written to it.                                                          *)

MaxPaths == 3    \* length of the path list handed to buildTreeOutput

\* the byte of a character, for the order of sort.Strings
Byte(c) ==
    CASE c = "." -> 46 [] c = "/" -> 47
      [] c = "a" -> 97 [] c = "b" -> 98 [] c = "g" -> 103 [] c = "j" -> 106
      [] c = "m" -> 109 [] c = "o" -> 111 [] c = "p" -> 112 [] c = "s" -> 115
      [] c = "t" -> 116 [] c = "u" -> 117 [] c = "x" -> 120

\* the string of an absolute path, as characters: "/" and the element, for
\* each element
RECURSIVE PathChars(_)
PathChars(path) ==
    IF path = <<>> THEN <<>>
    ELSE <<"/">> \o Chars(Head(path)) \o PathChars(Tail(path))

\* strings.HasPrefix on characters
HasPrefixChars(s, prefix) ==
    Len(prefix) <= Len(s) /\ SubSeq(s, 1, Len(prefix)) = prefix

\* strings.HasPrefix(path, root) on the strings of two paths
HasPrefix(path, prefix) == HasPrefixChars(PathChars(path), PathChars(prefix))

\* s < t for strings, byte by byte
RECURSIVE LessChars(_, _)
LessChars(s, t) ==
    IF t = <<>> THEN FALSE
    ELSE IF s = <<>> THEN TRUE
    ELSE IF Head(s) # Head(t) THEN Byte(Head(s)) < Byte(Head(t))
    ELSE LessChars(Tail(s), Tail(t))

Less(p, q) == LessChars(PathChars(p), PathChars(q))

\* variant: the nodes in descending order
SortStringsDescending(nodes) ==
    [i \in 1..Cardinality(nodes) |->
        CHOOSE n \in nodes : Cardinality({m \in nodes : Less(n, m)}) = i - 1]

\* sort.Strings on the keys of the nodes map
SortStrings(nodes) ==
    [i \in 1..Cardinality(nodes) |->
        CHOOSE n \in nodes : Cardinality({m \in nodes : Less(m, n)}) = i - 1]

\* filepath.Dir of an absolute path; the empty sequence is "/"
Dir(path) == IF path = <<>> THEN <<>> ELSE SubSeq(path, 1, Len(path) - 1)

\* variant: no parent directory is added
ParentLoopStops(dir, base, nodes) == nodes

\* root.go:292-296: for dir != root && dir != "." && dir != "/"
RECURSIVE ParentLoop(_, _, _)
ParentLoop(dir, base, nodes) ==
    IF dir # base /\ dir # <<>>
    THEN ParentLoop(Dir(dir), base, nodes \cup {dir})
    ELSE nodes

\* variant: only the first path of the list is looked at
NodesLoopFirstOnly(paths, i, base, nodes) ==
    IF i > Len(paths) \/ ~HasPrefix(paths[i], base) THEN nodes
    ELSE ParentLoop(Dir(paths[i]), base, nodes \cup {paths[i]})

\* root.go:282-297: for _, path := range paths
RECURSIVE NodesLoop(_, _, _, _)
NodesLoop(paths, i, base, nodes) ==
    IF i > Len(paths) THEN nodes
    ELSE IF ~HasPrefix(paths[i], base) THEN NodesLoop(paths, i + 1, base, nodes)
    ELSE NodesLoop(paths, i + 1, base,
                   ParentLoop(Dir(paths[i]), base, nodes \cup {paths[i]}))

\* the length of the longest common prefix of two paths
RECURSIVE CommonLen(_, _)
CommonLen(p, q) ==
    IF p # <<>> /\ q # <<>> /\ Head(p) = Head(q)
    THEN 1 + CommonLen(Tail(p), Tail(q))
    ELSE 0

\* strings.Split(filepath.Rel(root, path), separator) for two absolute paths:
\* ".." for each element of base below the common prefix, then the rest of
\* path; "." when the two are equal
RelParts(base, path) ==
    IF path = base THEN <<".">>
    ELSE LET c == CommonLen(base, path)
         IN  [i \in 1..(Len(base) - c) |-> ".."]
                \o SubSeq(path, c + 1, Len(path))

\* root.go:326-343
IsLast(sortedNodes, i, base) ==
    LET parts == RelParts(base, sortedNodes[i])
        depth == Len(parts) - 1
    IN  IF i < Len(sortedNodes)
        THEN LET nextParts == RelParts(base, sortedNodes[i + 1])
                 nextDepth == Len(nextParts) - 1
             IN  ~(/\ nextDepth = depth /\ Len(parts) > 1 /\ Len(nextParts) > 1
                   /\ parts[1] = nextParts[1])
        ELSE TRUE

\* root.go:347-353: one string per level above the entry; the box-drawing
\* characters of the source are written in ASCII: "|" the vertical bar,
\* "|-- " the tee connector, "+-- " the corner connector
Indentation(depth, lastInDir) ==
    [j \in 1..depth |-> IF (j - 1) \in lastInDir THEN "    " ELSE "|   "]

\* root.go:315-362: the loop over sortedNodes from its second element; lastInDir
\* is the set of depths the map holds true for
RECURSIVE RenderLoop(_, _, _, _, _)
RenderLoop(sortedNodes, i, base, lastInDir, out) ==
    IF i > Len(sortedNodes) THEN out
    ELSE LET path  == sortedNodes[i]
             depth == Len(RelParts(base, path)) - 1
             last  == IsLast(sortedNodes, i, base)
             lid   == IF last THEN lastInDir \cup {depth}
                      ELSE lastInDir \ {depth}
             line  == Indentation(depth, lid)
                        \o <<IF last THEN "+-- " ELSE "|-- ">>
                        \o <<Base(path)>>
         IN  RenderLoop(sortedNodes, i + 1, base, lid,
                        [lines |-> Append(out.lines, line),
                         nodes |-> Append(out.nodes, path)])

\* variant: the empty list answered with the full path of the root
BuildTreeOutputEmptyFullPath(base, paths) ==
    IF Len(paths) = 0 THEN [lines |-> <<base>>, nodes |-> <<>>]
    ELSE RenderLoop(SortStrings(NodesLoop(paths, 1, base, {base})), 2, base, {},
                    [lines |-> <<<<Base(base)>>>>, nodes |-> <<>>])

\* buildTreeOutput(root, paths): the lines of the string it returns, and the
\* node each line after the first was written for
BuildTreeOutput(base, paths) ==
    IF Len(paths) = 0 THEN [lines |-> <<<<Base(base)>>>>, nodes |-> <<>>]
    ELSE RenderLoop(SortStrings(NodesLoop(paths, 1, base, {base})), 2, base, {},
                    [lines |-> <<<<Base(base)>>>>, nodes |-> <<>>])

\* files of a project, relative to its root
RenderFiles ==
    { <<"a.go">>, <<"b.js">>, <<"sub.x">>,
      <<"sub", "a.go">>, <<"sub", "b.js">>, <<"sub", "t.x">>,
      <<"sub", "sub", "b.js">> }

RenderRoots == { <<"tmp", "a">>, <<"tmp", "ab">> }

\* paths that are not under the root /tmp/a: the first has the string of that
\* root as a prefix of its own string, the second has not
OutsidePaths == { <<"tmp", "ab", "t.x">>, <<"tmp", "t.x">> }

\* paths a caller may hand over for a root
RenderPaths(base) == {base \o rel : rel \in RenderFiles} \cup OutsidePaths

\* everything outside buildTreeOutput is at rest
RenderOnly ==
    /\ NoRun
    /\ entries = NoTree /\ unreadable = {}
    /\ f = [excludeGlobs |-> <<>>, includeGlobs |-> <<>>]
    /\ maxDepth = -1 /\ walkErr = "nil"
    /\ todo = <<>> /\ pc = "idle"
    /\ visited = {} /\ subVisited = {} /\ readFailed = {}
    /\ patternArg = <<>> /\ expanded = <<>>
    /\ excludePatterns = <<>> /\ includePatterns = <<>>
    /\ filters = [excludeGlobs |-> <<>>, includeGlobs |-> <<>>]

RenderInit ==
    /\ root \in RenderRoots
    /\ matchingPaths \in SeqsUpTo(RenderPaths(root), MaxPaths)
    /\ showFullPath \in BOOLEAN
    /\ finalOutput = <<>> /\ renderedNodes = <<>>
    /\ phase = "input"
    /\ RenderOnly

\* finalOutput := buildTreeOutput(root, matchingPaths)
CallBuildTreeOutput ==
    /\ phase = "input"
    /\ LET out == BuildTreeOutput(root, matchingPaths)
       IN  finalOutput' = out.lines /\ renderedNodes' = out.nodes
    /\ phase' = "output"
    /\ UNCHANGED <<root, entries, unreadable, f, maxDepth, matchingPaths,
                   walkErr, todo, pc, visited, subVisited, readFailed,
                   expandVars, processVars, showFullPath, runVars>>

RenderNext == CallBuildTreeOutput

SpecRender == RenderInit /\ [][RenderNext]_vars

----------------------------------------------------------------------------
(* Vocabulary of the properties of the rendered tree. *)

Rendered == phase = "output" /\ finalOutput # <<>>

\* every path of the list lies beneath the root
PathsUnderRoot == \A i \in 1..Len(matchingPaths) : IsAncestor(root, matchingPaths[i])

\* the directories strictly between the root and a path beneath it
Between(path) == {SubSeq(path, 1, k) : k \in (Len(root) + 1)..(Len(path) - 1)}

\* the matched paths and the directories between them and the root
TreeNodes == Range(matchingPaths) \cup UNION {Between(p) : p \in Range(matchingPaths)}

\* the lines after the root line
EntryLines == SubSeq(finalOutput, 2, Len(finalOutput))

\* the base name a line ends with, its connector, and the levels of
\* indentation before the connector
LineName(line) == line[Len(line)]
LineConnector(line) == line[Len(line) - 1]
LineLevel(line) == Len(line) - 2

\* the line a full path is written as: a separator and the element, for each
\* element
RECURSIVE FullPathLine(_)
FullPathLine(path) ==
    IF path = <<>> THEN <<>>
    ELSE <<"/", Head(path)>> \o FullPathLine(Tail(path))

(* C16: rendering the paths R/a.go and R/sub/b.js under the root R gives,  *)
(* after the root line, the lines of a.go, sub and b.js in that order,     *)
(* a.go and sub at the top level and b.js one level under sub; a.go, which *)
(* sub follows in the same directory, carries the tee connector, and sub   *)
(* and b.js, each the last entry of its directory, the corner connector.   *)
C16_ExampleTree ==
    (/\ Rendered
     /\ Range(matchingPaths) = {root \o <<"a.go">>, root \o <<"sub", "b.js">>})
        => /\ Len(EntryLines) = 3
           /\ [i \in 1..3 |-> LineName(EntryLines[i])] = <<"a.go", "sub", "b.js">>
           /\ [i \in 1..3 |-> LineLevel(EntryLines[i])] = <<0, 0, 1>>
           /\ [i \in 1..3 |-> LineConnector(EntryLines[i])]
                 = <<"|-- ", "+-- ", "+-- ">>

(* C17: for a list of matched paths under the root, the set of base names  *)
(* on the entry lines of the output is the set of the base names of the    *)
(* matched paths and of the directories strictly between each path and the *)
(* root, no more and no less.                                              *)
C17_BaseNamesRoundTrip ==
    (Rendered /\ PathsUnderRoot)
        => {LineName(EntryLines[i]) : i \in 1..Len(EntryLines)}
              = {Base(n) : n \in TreeNodes}

\* a tree two levels deep with four different names has been rendered
C17_Witness ==
    /\ Rendered /\ PathsUnderRoot
    /\ \E p \in Range(matchingPaths) : Len(p) = Len(root) + 3
    /\ Cardinality({LineName(EntryLines[i]) : i \in 1..Len(EntryLines)}) = 4

(* C18: the output starts with the root line and then has exactly one line *)
(* for each distinct node (matched path or directory between a matched     *)
(* path and the root), in ascending order of the strings of the nodes'     *)
(* full paths.                                                             *)
C18_OneLinePerNodeSorted ==
    (Rendered /\ PathsUnderRoot)
        => /\ finalOutput[1] = <<Base(root)>>
           /\ Len(EntryLines) = Cardinality(TreeNodes)
           /\ Range(renderedNodes) = TreeNodes
           /\ \A i \in 1..Len(EntryLines) :
                 LineName(EntryLines[i]) = Base(renderedNodes[i])
           /\ \A i \in 1..(Len(renderedNodes) - 1) :
                 LessChars(PathChars(renderedNodes[i]),
                           PathChars(renderedNodes[i + 1]))

\* a list with a repeated path, given out of order, whose nodes include a
\* name that sorts between a directory and its contents
C18_Witness ==
    /\ Rendered /\ PathsUnderRoot
    /\ Len(matchingPaths) = 3 /\ matchingPaths[1] = matchingPaths[3]
    /\ LessChars(PathChars(matchingPaths[2]), PathChars(matchingPaths[1]))
    /\ Len(EntryLines) = 3
    /\ root \o <<"sub.x">> \in Range(matchingPaths)

(* C19: for an empty path list the output is exactly the base name of the  *)
(* root and a line break, with no connector.                               *)
C19_EmptyListRootOnly ==
    (phase = "output" /\ matchingPaths = <<>>)
        => finalOutput = << <<Base(root)>> >>

\* the renderer has returned for an empty list
C19_Witness ==
    /\ phase = "output" /\ matchingPaths = <<>>
    /\ Len(finalOutput) = 1 /\ Len(finalOutput[1]) = 1

(* C20: with the show-full-path option enabled the first line of the       *)
(* output is the full path of the root and the second its base name, for   *)
(* an empty and a non-empty path list, and an empty list gives these two   *)
(* lines only; with the option disabled the output starts with the base    *)
(* name of the root.                                                       *)
C20_FullPathLine ==
    Rendered
        => IF showFullPath
           THEN /\ Len(finalOutput) >= 2
                /\ finalOutput[1] = FullPathLine(root)
                /\ finalOutput[2] = <<Base(root)>>
                /\ matchingPaths = <<>> => Len(finalOutput) = 2
           ELSE finalOutput[1] = <<Base(root)>>

----------------------------------------------------------------------------
(* rootCmd.RunE, root.go:52-115: one invocation of the command.  RunStart  *)
(* runs it up to the call of findMatchingFiles, the actions of the walk    *)
(* run that call, and RunFinish runs the rest.                             *)

RunMaxLeaves == 1      \* files and unreadable directories of the tree
RunMaxPatterns == 1    \* length of the --exclude and of the --include list

\* root.go:383: the --depth values of an invocation, the default 1 among them
RunDepths == {-1, 0, 1}

\* the glob patterns as strings, with the one smart default kept
PatternStrings == Patterns \cup {".git"}

\* the raw patterns of an invocation: a plain one and one with a group of
\* two options; their expansions are patterns of the walk
RunRawPatterns ==
    { <<"a">>, <<"{", "a", "*", ",", " ", "?", "b", "}">> }

\* the string with the given characters
StringOf(cs) == CHOOSE p \in PatternStrings : Chars(p) = cs

\* root.go:545-571, getSmartDefaults: of the defaults of every project type
\* only the first common one, .git, is kept; like the others it matches no
\* name of the trees here
SmartDefaults == << <<".", "g", "i", "t">> >>

\* root.go:579-592: the defaults that are not in the list yet are appended
RECURSIVE AppendDefaults(_, _, _)
AppendDefaults(list, defaults, i) ==
    IF i > Len(defaults) THEN list
    ELSE AppendDefaults(IF defaults[i] \in Range(list) THEN list
                        ELSE Append(list, defaults[i]),
                        defaults, i + 1)

\* one thing printed to standard output: a notice, or the lines of the tree
Printed(what, lines) == [what |-> what, lines |-> lines]

\* the trees an invocation may meet: up to RunMaxLeaves leaves, each a file
\* or an unreadable directory; an unreadable start directory; none
RunInit ==
    /\ root = <<"tmp", "a">>
    /\ \E leaves \in SUBSET Universe, udirs \in SUBSET Universe :
         /\ Cardinality(leaves) <= RunMaxLeaves /\ PrefixFree(leaves)
         /\ udirs \subseteq leaves
         /\ \/ /\ entries = Tree(root, leaves \ udirs, udirs)
               /\ unreadable = {root \o r : r \in udirs}
            \/ /\ leaves = {}
               /\ \/ entries = Tree(root, {}, {}) /\ unreadable = {root}
                  \/ entries = NoTree /\ unreadable = {}
    /\ maxDepth \in RunDepths
    /\ showVersion \in BOOLEAN /\ showPatterns \in BOOLEAN
    /\ IF showVersion \/ showPatterns
       THEN \* the flags that are not looked at are left at their defaults
            /\ excludePatterns = <<>> /\ includePatterns = <<>>
            /\ useSmartDefaults = FALSE /\ copyToClipboard = FALSE
            /\ outputFile = ""
       ELSE /\ excludePatterns \in SeqsUpTo(RunRawPatterns, RunMaxPatterns)
            /\ includePatterns \in SeqsUpTo(RunRawPatterns, RunMaxPatterns)
            /\ useSmartDefaults \in BOOLEAN /\ copyToClipboard \in BOOLEAN
            /\ outputFile \in {"", "out.txt"}
    /\ f = [excludeGlobs |-> <<>>, includeGlobs |-> <<>>]
    /\ filters = [excludeGlobs |-> <<>>, includeGlobs |-> <<>>]
    /\ matchingPaths = <<>> /\ walkErr = "nil" /\ todo = <<>> /\ pc = "idle"
    /\ visited = {} /\ subVisited = {} /\ readFailed = {}
    /\ phase = "input" /\ patternArg = <<>> /\ expanded = <<>>
    /\ showFullPath = FALSE /\ finalOutput = <<>> /\ renderedNodes = <<>>
    /\ rpc = "start"
    /\ stdout = <<>> /\ clipboard = <<>> /\ fileOut = <<>>
    /\ runErr = "nil" /\ calls = <<>> /\ sinkFailed = "none"

\* root.go:54-83: the early returns, the start path, the smart defaults,
\* processFilters and the call of findMatchingFiles
RunStart ==
    /\ rpc = "start"
    /\ IF showVersion THEN
           /\ stdout' = Append(stdout, Printed("version", <<>>))
           /\ rpc' = "returned"
           /\ UNCHANGED <<excludePatterns, filters, f, pc, calls, runErr>>
       ELSE IF showPatterns THEN
           /\ stdout' = Append(stdout, Printed("patternHelp", <<>>))
           /\ rpc' = "returned"
           /\ UNCHANGED <<excludePatterns, filters, f, pc, calls, runErr>>
       ELSE \E absOk \in BOOLEAN :
           IF ~absOk THEN
               /\ runErr' = "invalid starting path"
               /\ rpc' = "returned"
               /\ UNCHANGED <<excludePatterns, filters, f, pc, calls, stdout>>
           ELSE
               LET exclude == IF useSmartDefaults
                              THEN AppendDefaults(excludePatterns,
                                                  SmartDefaults, 1)
                              ELSE excludePatterns
                   fl == ProcessFilters(exclude, includePatterns)
               IN  /\ excludePatterns' = exclude
                   /\ stdout' = IF useSmartDefaults
                                THEN Append(stdout,
                                            Printed("smartDefaults", <<>>))
                                ELSE stdout
                   /\ filters' = fl
                   /\ f' = [excludeGlobs |->
                              [i \in 1..Len(fl.excludeGlobs) |->
                                  StringOf(fl.excludeGlobs[i])],
                            includeGlobs |->
                              [i \in 1..Len(fl.includeGlobs) |->
                                  StringOf(fl.includeGlobs[i])]]
                   /\ calls' = calls \o <<"processFilters", "findMatchingFiles">>
                   /\ pc' = "start"
                   /\ rpc' = "matching"
                   /\ UNCHANGED runErr
    /\ UNCHANGED <<root, entries, unreadable, maxDepth, matchingPaths, walkErr,
                   todo, visited, subVisited, readFailed, phase, expandVars,
                   includePatterns, renderVars, optionVars, clipboard, fileOut,
                   sinkFailed>>

\* variant: the error of the matcher is not looked at
MatcherFailedNever(err) == FALSE

\* root.go:84: if err != nil
MatcherFailed(err) == err # "nil"

\* variant: the tree is printed whatever the sinks asked for
SinksAlwaysPrint(out, printed, clipOk, fileOk) ==
    [stdout |-> Append(printed, Printed("tree", out)),
     clipboard |-> IF copyToClipboard /\ clipOk THEN out ELSE clipboard,
     fileOut |-> IF outputFile # "" /\ fileOk THEN out ELSE fileOut,
     err |-> IF copyToClipboard /\ ~clipOk THEN "failed to copy to clipboard"
             ELSE IF outputFile # "" /\ ~fileOk
                  THEN "failed to write to output file" ELSE "nil",
     failed |-> IF copyToClipboard /\ ~clipOk THEN "clipboard"
                ELSE IF outputFile # "" /\ ~fileOk THEN "file" ELSE "none",
     returned |-> FALSE]

\* variant: a failed write is passed over
SinksIgnoreFailure(out, printed, clipOk, fileOk) ==
    [stdout |-> IF ~copyToClipboard /\ outputFile = ""
                THEN Append(printed, Printed("tree", out)) ELSE printed,
     clipboard |-> IF copyToClipboard /\ clipOk THEN out ELSE clipboard,
     fileOut |-> IF outputFile # "" /\ fileOk THEN out ELSE fileOut,
     err |-> "nil",
     failed |-> IF copyToClipboard /\ ~clipOk THEN "clipboard"
                ELSE IF outputFile # "" /\ ~fileOk THEN "file" ELSE "none",
     returned |-> FALSE]

\* root.go:98-112: the sinks, in the order of the code; the result is what
\* has been printed, written and returned, and the write that failed
Sinks(out, printed, clipOk, fileOk) ==
    LET start == [stdout |-> printed, clipboard |-> clipboard,
                  fileOut |-> fileOut, err |-> "nil", failed |-> "none",
                  returned |-> FALSE]
        afterClip ==
            IF ~copyToClipboard THEN start
            ELSE IF ~clipOk
                 THEN [start EXCEPT !.err = "failed to copy to clipboard",
                                    !.failed = "clipboard",
                                    !.returned = TRUE]
                 ELSE [start EXCEPT !.clipboard = out,
                                    !.stdout = Append(@, Printed("copied", <<>>))]
        afterFile ==
            IF afterClip.returned \/ outputFile = "" THEN afterClip
            ELSE IF ~fileOk
                 THEN [afterClip EXCEPT !.err = "failed to write to output file",
                                        !.failed = "file",
                                        !.returned = TRUE]
                 ELSE [afterClip EXCEPT !.fileOut = out,
                                        !.stdout = Append(@, Printed("written", <<>>))]
    IN  IF afterFile.returned THEN afterFile
        ELSE IF ~copyToClipboard /\ outputFile = ""
             THEN [afterFile EXCEPT !.stdout = Append(@, Printed("tree", out))]
             ELSE afterFile

\* variant: an empty result is rendered like any other
NothingToDoNever == FALSE

\* root.go:89: if len(filters.includeGlobs) > 0 && len(matchingFiles) == 0
NothingToDo == Len(filters.includeGlobs) > 0 /\ Len(matchingPaths) = 0

\* root.go:84-114: from the return of findMatchingFiles to the return of RunE
RunFinish ==
    /\ rpc = "matching" /\ pc = "done"
    /\ rpc' = "returned"
    /\ IF MatcherFailed(walkErr) THEN
           /\ runErr' = "error finding files"
           /\ UNCHANGED <<stdout, clipboard, fileOut, calls, finalOutput,
                          renderedNodes, sinkFailed>>
       ELSE IF NothingToDo THEN
           /\ stdout' = Append(stdout, Printed("noFilesFound", <<>>))
           /\ UNCHANGED <<runErr, clipboard, fileOut, calls, finalOutput,
                          renderedNodes, sinkFailed>>
       ELSE LET out == BuildTreeOutput(root, matchingPaths)
            IN  /\ finalOutput' = out.lines
                /\ renderedNodes' = out.nodes
                /\ calls' = Append(calls, "buildTreeOutput")
                /\ \E clipOk \in BOOLEAN, fileOk \in BOOLEAN :
                     LET sunk == Sinks(out.lines, stdout, clipOk, fileOk)
                     IN  /\ stdout' = sunk.stdout
                         /\ clipboard' = sunk.clipboard
                         /\ fileOut' = sunk.fileOut
                         /\ runErr' = sunk.err
                         /\ sinkFailed' = sunk.failed
    /\ UNCHANGED <<walkVars, phase, expandVars, processVars, showFullPath,
                   optionVars>>

RunNext ==
    \/ RunStart
    \/ WalkDirLstatError
    \/ WalkDirStart
    \/ VisitEntry
    \/ ReadDirError
    \/ WalkDirReturn
    \/ RunFinish

SpecRun == RunInit /\ [][RunNext]_vars

----------------------------------------------------------------------------
(* Vocabulary of the properties of an invocation. *)

Returned == rpc = "returned"

\* findMatchingFiles has returned an error to RunE
MatcherReturnedError == rpc \in {"matching", "returned"} /\ pc = "done" /\ walkErr # "nil"

RendererInvoked == "buildTreeOutput" \in Range(calls)

TreePrinted == \E i \in 1..Len(stdout) : stdout[i].what = "tree"

\* tree text has reached standard output, the output file or the clipboard
TreeWritten == TreePrinted \/ clipboard # <<>> \/ fileOut # <<>>

(* C11: when the matcher pass returns an error the invocation returns an   *)
(* error, the renderer is never invoked and no tree text reaches standard  *)
(* output, the output file or the clipboard; the renderer is invoked and a *)
(* sink written only after the matcher pass has returned without error.    *)
C11_MatcherErrorAborts ==
    /\ (Returned /\ MatcherReturnedError)
          => runErr # "nil" /\ ~RendererInvoked /\ ~TreeWritten
    /\ MatcherReturnedError => ~RendererInvoked /\ ~TreeWritten
    /\ (RendererInvoked \/ TreeWritten) => pc = "done" /\ walkErr = "nil"

\* an invocation asked to copy and to write a file has returned the error of
\* a failed walk, having printed only the smart defaults notice
C11_Witness ==
    /\ Returned /\ MatcherReturnedError
    /\ copyToClipboard /\ outputFile # "" /\ useSmartDefaults
    /\ runErr = "error finding files"
    /\ Len(stdout) = 1 /\ stdout[1].what = "smartDefaults"
    /\ clipboard = <<>> /\ fileOut = <<>>

----------------------------------------------------------------------------
\* the invocation has rendered a tree and returned without error
TreeRendered == Returned /\ RendererInvoked /\ runErr = "nil"

\* the nodes with a line in the rendered tree
RenderedSet == Range(renderedNodes)

PrintedTree ==
    IF TreePrinted
    THEN stdout[CHOOSE i \in 1..Len(stdout) : stdout[i].what = "tree"].lines
    ELSE <<>>

(* C22: for a successful invocation that renders a tree, the tree is       *)
(* printed to standard output exactly when neither the copy option nor an  *)
(* output file is set; with an output file the tree is written to the file *)
(* and not to the console, with the copy option to the clipboard, and with *)
(* both, both receive the same rendered string.                            *)
C22_SinkSelection ==
    TreeRendered
        => /\ TreePrinted <=> (~copyToClipboard /\ outputFile = "")
           /\ TreePrinted => PrintedTree = finalOutput
           /\ fileOut = IF outputFile # "" THEN finalOutput ELSE <<>>
           /\ clipboard = IF copyToClipboard THEN finalOutput ELSE <<>>

\* both sinks asked for, both hold the tree of a non-empty result
C22_Witness ==
    /\ TreeRendered /\ copyToClipboard /\ outputFile # ""
    /\ Len(finalOutput) > 1
    /\ clipboard = finalOutput /\ fileOut = finalOutput /\ ~TreePrinted

(* C23: in include mode, when the matcher returns no files, the invocation *)
(* prints the no-matches notice and returns success; the renderer is not   *)
(* invoked and nothing is written to the output file or the clipboard,     *)
(* even when these sinks were asked for.                                   *)
C23_NoMatchesShortCircuit ==
    (Returned /\ pc = "done" /\ walkErr = "nil"
              /\ IncludeMode /\ matchingPaths = <<>>)
        => /\ \E i \in 1..Len(stdout) : stdout[i].what = "noFilesFound"
           /\ runErr = "nil"
           /\ ~RendererInvoked /\ ~TreeWritten

\* both sinks asked for, a tree with a file that no include pattern matches
C23_Witness ==
    /\ Returned /\ pc = "done" /\ walkErr = "nil"
    /\ IncludeMode /\ matchingPaths = <<>> /\ Files # {}
    /\ copyToClipboard /\ outputFile # ""
    /\ stdout[Len(stdout)].what = "noFilesFound"
    /\ clipboard = <<>> /\ fileOut = <<>>

(* C24: a failing sink write ends the invocation with an error: when the   *)
(* clipboard write fails the output file is not written and the tree is    *)
(* not printed, and when the output-file write fails an error is returned; *)
(* no failure is passed over.                                              *)
C24_SinkFailureIsTerminal ==
    Returned
        => /\ sinkFailed = "clipboard"
                => runErr # "nil" /\ fileOut = <<>> /\ ~TreePrinted
           /\ sinkFailed = "file" => runErr # "nil" /\ ~TreePrinted
           /\ sinkFailed # "none" => RendererInvoked

\* the clipboard write failed with an output file asked for as well
C24_Witness ==
    /\ Returned /\ sinkFailed = "clipboard" /\ outputFile # ""
    /\ runErr = "failed to copy to clipboard"
    /\ fileOut = <<>> /\ clipboard = <<>> /\ stdout = <<>>

----------------------------------------------------------------------------
(* C25: the list findMatchingFiles builds never holds the same path twice, *)
(* whatever the tree and the filter, also when a whitelisted directory     *)
(* holds directories that are themselves named by include patterns or      *)
(* files that glob-match an include pattern as well.                       *)
C25_NoDuplicatePaths ==
    \A i \in 1..Len(matchingPaths), j \in 1..Len(matchingPaths) :
        i # j => matchingPaths[i] # matchingPaths[j]

\* a whitelisted directory holding a directory named by an include pattern,
\* with a file beneath it that matches an include pattern too
C25_Witness ==
    /\ Done /\ walkErr = "nil" /\ Len(matchingPaths) >= 2
    /\ \E d \in Dirs, e \in Dirs, p \in Result :
         /\ IsAncestor(d, e) /\ IsAncestor(e, p)
         /\ Base(d) \in Range(f.includeGlobs)
         /\ Base(e) \in Range(f.includeGlobs)
         /\ MatchesAny(f.includeGlobs, Base(p))

----------------------------------------------------------------------------
\* the name of the start directory matches an exclude pattern
RootNameExcluded == MatchesAny(f.excludeGlobs, Base(root))

\* the entries directly in the start directory
RootChildren == {p \in DOMAIN entries : Len(p) = Len(root) + 1}

(* C26: the start directory is never excluded: when its base name matches  *)
(* an exclude pattern, findMatchingFiles still descends into it and        *)
(* filters its contents as usual, instead of returning nothing.            *)
C26_RootNeverExcluded ==
    (Done /\ walkErr = "nil" /\ RootNameExcluded)
        => /\ RootChildren \subseteq visited
           /\ \A p \in Files :
                (/\ ~MatchesAny(f.excludeGlobs, Base(p))
                 /\ ~UnderExcludedDir(p)
                 /\ WithinDepth(p)
                 /\ IncludeMode => MatchesAny(f.includeGlobs, Base(p)))
                    => p \in Result

\* a walk of a start directory whose name is excluded has returned a file
C26_Witness ==
    /\ Done /\ walkErr = "nil" /\ RootNameExcluded
    /\ Result # {} /\ RootChildren \subseteq visited

----------------------------------------------------------------------------
\* the paths of the list that lie beneath the root, in the order of the list
PathsBeneathRoot == SelectSeq(matchingPaths, LAMBDA p : IsAncestor(root, p))

(* C27: buildTreeOutput skips every path of the list that does not lie     *)
(* under the root: neither the path nor its ancestors get a line, and the  *)
(* output is the output for the list without these paths.                  *)
C27_OutsidePathsSkipped ==
    Rendered
        => /\ \A i \in 1..Len(renderedNodes) : IsAncestor(root, renderedNodes[i])
           /\ finalOutput = BuildTreeOutput(root, PathsBeneathRoot).lines

----------------------------------------------------------------------------
(* C28: the output is a preorder listing of the tree: for paths under the  *)
(* root, whatever the names, the line of an entry comes after the line of  *)
(* its parent directory, and the lines of the entries beneath a directory  *)
(* are one block right after the line of the directory.                    *)
C28_PreorderListing ==
    (Rendered /\ PathsUnderRoot)
        => /\ \A k \in 1..Len(renderedNodes) :
                Dir(renderedNodes[k]) # root
                    => \E i \in 1..(k - 1) :
                           renderedNodes[i] = Dir(renderedNodes[k])
           /\ \A i \in 1..Len(renderedNodes), k \in 1..Len(renderedNodes) :
                (i < k /\ IsAncestor(renderedNodes[i], renderedNodes[k]))
                    => \A j \in (i + 1)..(k - 1) :
                           IsAncestor(renderedNodes[i], renderedNodes[j])

(* C29: every entry carries the corner connector exactly when no later     *)
(* printed entry has the same parent directory, and the tee connector      *)
(* otherwise, at every depth, the entries directly under the root          *)
(* included.                                                               *)
C29_ConnectorBySiblings ==
    (Rendered /\ PathsUnderRoot)
        => \A i \in 1..Len(renderedNodes) :
              LineConnector(EntryLines[i]) =
                 IF \E j \in (i + 1)..Len(renderedNodes) :
                        Dir(renderedNodes[j]) = Dir(renderedNodes[i])
                 THEN "|-- " ELSE "+-- "

\* the distinct paths of the list, in ascending order
PathSetInOrder == SortStrings(Range(matchingPaths))

(* C30: the output depends only on the root and on the set of the matched  *)
(* paths: a list in another order, or with paths repeated, gives the same  *)
(* output.                                                                 *)
C30_OrderAndRepeatsIrrelevant ==
    Rendered => finalOutput = BuildTreeOutput(root, PathSetInOrder).lines

\* a list with a repeated path and its last path sorting first
C30_Witness ==
    /\ Rendered /\ Len(matchingPaths) = 3
    /\ matchingPaths[1] = matchingPaths[2]
    /\ Less(matchingPaths[3], matchingPaths[1])
    /\ Len(finalOutput) > 3

====
